---- MODULE Spec2Model ----
(***************************************************************************)
(* Feature store service (src/api/routes.py), progress notifier            *)
(* (src/progress.py) and server lifecycle (src/api/server.py) of the       *)
(* autonomous-coding repository.                                           *)
(*                                                                         *)
(* The Feature table is a set of rows keyed by id.  Every HTTP handler is  *)
(* an operator from the table (and the request) to a response and a new    *)
(* table; an action applies one handler and records the exchange in        *)
(* `last`, together with the table the handler started from.              *)
(***************************************************************************)
EXTENDS Integers, Sequences, FiniteSets, TLC

VARIABLES
    store,      \* rows of the Feature table
    nextId,     \* the id the table gives to the next inserted row
    assigned,   \* every id the table has handed out, in creation order
    last,       \* the last request handled: operation, arguments, response, table before
    inflight,   \* per worker thread: the create request it is in the middle of
    cache,      \* content of the .progress_cache file
    webhookUrl, \* whether PROGRESS_N8N_WEBHOOK_URL is set in this process
    notifier,   \* position of print_progress_summary and the stats it has read
    outbox,     \* the payloads the last send_progress_webhook call built
    listed,     \* per feature id: how many payloads have listed it as completed
    manager,    \* the FeatureAPIServer: self.server, self.thread, the call in progress
    threads,    \* per thread the manager started: where it is in _run_server
    should_exit,\* per uvicorn.Server the manager created: its should_exit flag
    trail       \* the last step of the manager or of one of its threads

\* the FeatureAPIServer and the threads it started
lifecycle == <<manager, threads, should_exit, trail>>

vars == <<store, nextId, assigned, last, inflight, cache, webhookUrl, notifier, outbox, listed,
          manager, threads, should_exit, trail>>

(* ------------------------------ bounds -------------------------------- *)

\* ids handed out by the table stay within 1..MaxId
MaxId == 3
\* longest list of a bulk create request
MaxBulk == 2
\* the count of payloads listing one feature id is followed up to MaxListed
MaxListed == 2

(* ------------------------- program constants -------------------------- *)

CategoryMaxLen == 100
NameMaxLen == 255
LimitMin == 1
LimitMax == 1000
NotifierFetchLimit == 1000

(* ------------------------------ helpers ------------------------------- *)

Min(a, b) == IF a < b THEN a ELSE b

Max(a, b) == IF a > b THEN a ELSE b

RECURSIVE Rep(_)
\* a string of n characters
Rep(n) == IF n = 0 THEN "" ELSE "x" \o Rep(n - 1)

\* "no value" of an optional query parameter
None == "None"

\* worker threads of the listener that handle requests at the same time
Threads == {"w1", "w2"}

\* the threads a FeatureAPIServer has started and that may still be alive
ServerThreads == {"t1", "t2"}

(* --------------------------- request models --------------------------- *)

\* FeatureCreate: the four constrained fields of the request body
ValidFeatureCreate(body) ==
    /\ Len(body.category) >= 1
    /\ Len(body.category) <= CategoryMaxLen
    /\ Len(body.name) >= 1
    /\ Len(body.name) <= NameMaxLen
    /\ Len(body.description) >= 1
    /\ Len(body.steps) >= 1

\* ValidFeatureBulkCreate looking at the first item only
ValidFeatureBulkCreate_FirstItemOnly(items) ==
    /\ Len(items) >= 1
    /\ ValidFeatureCreate(items[1])

\* FeatureBulkCreate: a non-empty list of valid FeatureCreate items
ValidFeatureBulkCreate(items) ==
    /\ Len(items) >= 1
    /\ \A i \in 1..Len(items) : ValidFeatureCreate(items[i])

\* The parsed FeatureCreate object keeps the declared fields only: whatever
\* else the caller puts in the body (a priority, a passes flag) is dropped.
FeatureCreate(body) ==
    [category |-> body.category, name |-> body.name,
     description |-> body.description, steps |-> body.steps]

\* Query(50, ge=1, le=1000) and Query(0, ge=0)
ValidListQuery(limit, offset) ==
    /\ limit >= LimitMin
    /\ limit <= LimitMax
    /\ offset >= 0

(* ---------------------------- table queries --------------------------- *)

\* ORDER BY priority ASC, id ASC
Before(f, g) ==
    \/ f.priority < g.priority
    \/ (f.priority = g.priority /\ f.id < g.id)

RECURSIVE OrderBy(_)
OrderBy(rows) ==
    IF rows = {} THEN << >>
    ELSE LET f == CHOOSE f \in rows : \A g \in rows : g = f \/ Before(f, g)
         IN  <<f>> \o OrderBy(rows \ {f})

\* .offset(n) and .limit(n) of a query
Offset(rows, n) == SubSeq(rows, n + 1, Len(rows))

Limit(rows, n) == SubSeq(rows, 1, Min(n, Len(rows)))

\* db.query(Feature).filter(Feature.id == feature_id).first()
QueryById(s, feature_id) == {f \in s : f.id = feature_id}

\* db.query(Feature.priority).order_by(Feature.priority.desc()).first(),
\* followed by (max_priority[0] + 1) if max_priority else 1
NextPriority(s) ==
    IF s = {} THEN 1
    ELSE (CHOOSE p \in {f.priority : f \in s} : \A f \in s : f.priority <= p) + 1

\* Feature(priority=..., category=..., ..., passes=False), with the id the
\* table assigns on insert
NewFeature(id, priority, feature) ==
    [id |-> id, priority |-> priority, category |-> feature.category,
     name |-> feature.name, description |-> feature.description,
     steps |-> feature.steps, passes |-> FALSE]

\* AssignId as one more than the largest id in the table
AssignId_LargestPlusOne(s, nid, k) ==
    (CHOOSE m \in {0} \cup {f.id : f \in s} : \A f \in s : f.id <= m) + k

\* The id of the k-th row inserted when the table's counter stands at nid
AssignId(s, nid, k) == nid + k - 1

\* InsertAll giving every item the starting priority
InsertAll_NoOffset(s, nid, start_priority, items) ==
    LET ids == [i \in 1..Len(items) |-> AssignId(s, nid, i)]
    IN  [store |-> s \cup {NewFeature(ids[i], start_priority, items[i])
                            : i \in 1..Len(items)},
         nextId |-> nid + Len(items),
         ids |-> ids]

\* db.add of each item in order, then db.commit()
InsertAll(s, nid, start_priority, items) ==
    LET ids == [i \in 1..Len(items) |-> AssignId(s, nid, i)]
    IN  [store |-> s \cup {NewFeature(ids[i], start_priority + i - 1, items[i])
                            : i \in 1..Len(items)},
         nextId |-> nid + Len(items),
         ids |-> ids]

(* ------------------------------ handlers ------------------------------ *)

\* what a handler that only queries the table answers
Answer(status, body) == [status |-> status, body |-> body]

\* what a handler that may write answers, and the table it leaves
Response(status, body, s, nid, ids) ==
    [status |-> status, body |-> body, store |-> s, nextId |-> nid, ids |-> ids]

\* ListFeatures counting after the pagination
ListFeatures_TotalOfPage(s, limit, offset, passes, category) ==
    IF ~ValidListQuery(limit, offset) THEN Answer(422, << >>)
    ELSE LET byPasses == IF passes # None THEN {f \in s : f.passes = (passes = "true")}
                         ELSE s
             query == IF category # None THEN {f \in byPasses : f.category = category}
                      ELSE byPasses
             features == Limit(Offset(OrderBy(query), offset), limit)
         IN  Answer(200, [features |-> features, total |-> Len(features),
                          limit |-> limit, offset |-> offset])

ListFeatures(s, limit, offset, passes, category) ==
    IF ~ValidListQuery(limit, offset) THEN Answer(422, << >>)
    ELSE LET byPasses == IF passes # None THEN {f \in s : f.passes = (passes = "true")}
                         ELSE s
             query == IF category # None THEN {f \in byPasses : f.category = category}
                      ELSE byPasses
             total == Cardinality(query)
             features == Limit(Offset(OrderBy(query), offset), limit)
         IN  Answer(200, [features |-> features, total |-> total,
                          limit |-> limit, offset |-> offset])

\* GetNextFeature without the filter on passes
GetNextFeature_AnyPasses(s) ==
    LET rows == OrderBy(s)
    IN  IF rows = << >> THEN Answer(404, << >>) ELSE Answer(200, Head(rows))

GetNextFeature(s) ==
    LET rows == OrderBy({f \in s : f.passes = FALSE})
    IN  IF rows = << >> THEN Answer(404, << >>) ELSE Answer(200, Head(rows))

GetFeature(s, feature_id) ==
    LET found == QueryById(s, feature_id)
    IN  IF found = {} THEN Answer(404, << >>)
        ELSE Answer(200, CHOOSE f \in found : TRUE)

\* round(n / d) of Python: to the nearest integer, a tie to the even one
RoundHalfEven(n, d) ==
    LET q == n \div d
        r == n % d
    IN  IF 2 * r < d THEN q
        ELSE IF 2 * r > d THEN q + 1
        ELSE IF q % 2 = 0 THEN q ELSE q + 1

\* the percentage cut to one decimal, never rounded up
Percentage_Truncated(passing, total) ==
    IF total > 0 THEN (passing * 1000) \div total ELSE 0

\* round((passing / total) * 100, 1) if total > 0 else 0, in tenths of a percent
Percentage(passing, total) ==
    IF total > 0 THEN RoundHalfEven(passing * 1000, total) ELSE 0

GetStats(s) ==
    LET total == Cardinality(s)
        passing == Cardinality({f \in s : f.passes = TRUE})
    IN  Answer(200, [passing |-> passing, total |-> total,
                     percentage |-> Percentage(passing, total)])

\* CreateFeature taking passes from the request body
CreateFeature_PassesFromBody(s, nid, body) ==
    IF ~ValidFeatureCreate(body) THEN Response(422, << >>, s, nid, << >>)
    ELSE LET f == [NewFeature(AssignId(s, nid, 1), NextPriority(s), FeatureCreate(body))
                       EXCEPT !.passes = body.passes]
         IN  Response(201, f, s \cup {f}, nid + 1, <<f.id>>)

CreateFeature(s, nid, body) ==
    IF ~ValidFeatureCreate(body) THEN Response(422, << >>, s, nid, << >>)
    ELSE LET ins == InsertAll(s, nid, NextPriority(s), <<FeatureCreate(body)>>)
         IN  Response(201, CHOOSE f \in ins.store : f.id = ins.ids[1],
                      ins.store, ins.nextId, ins.ids)

CreateFeaturesBulk(s, nid, items) ==
    IF ~ValidFeatureBulkCreate(items) THEN Response(422, << >>, s, nid, << >>)
    ELSE LET ins == InsertAll(s, nid, NextPriority(s),
                              [i \in 1..Len(items) |-> FeatureCreate(items[i])])
         IN  Response(201, [created |-> Len(items)], ins.store, ins.nextId, ins.ids)

\* UpdateFeature writing passes before it looks the feature up
UpdateFeature_WriteBeforeLookup(s, nid, feature_id, passes) ==
    LET found == QueryById(s, feature_id)
    IN  IF found = {} THEN
            Response(404, << >>, {[f EXCEPT !.passes = passes] : f \in s}, nid, << >>)
        ELSE LET f == CHOOSE f \in found : TRUE
                 g == [f EXCEPT !.passes = passes]
             IN  Response(200, g, (s \ {f}) \cup {g}, nid, << >>)

\* UpdateFeature moving the feature to the end of the queue
UpdateFeature_Requeue(s, nid, feature_id, passes) ==
    LET found == QueryById(s, feature_id)
    IN  IF found = {} THEN Response(404, << >>, s, nid, << >>)
        ELSE LET f == CHOOSE f \in found : TRUE
                 g == [f EXCEPT !.passes = passes, !.priority = NextPriority(s)]
             IN  Response(200, g, (s \ {f}) \cup {g}, nid, << >>)

UpdateFeature(s, nid, feature_id, passes) ==
    LET found == QueryById(s, feature_id)
    IN  IF found = {} THEN Response(404, << >>, s, nid, << >>)
        ELSE LET f == CHOOSE f \in found : TRUE
                 g == [f EXCEPT !.passes = passes]
             IN  Response(200, g, (s \ {f}) \cup {g}, nid, << >>)

DeleteFeature(s, nid, feature_id) ==
    LET found == QueryById(s, feature_id)
    IN  IF found = {} THEN Response(404, << >>, s, nid, << >>)
        ELSE Response(204, << >>, s \ found, nid, << >>)

(* ------------------------------- inputs ------------------------------- *)

Body(category, name, description, steps, priority, passes) ==
    [category |-> category, name |-> name, description |-> description,
     steps |-> steps, priority |-> priority, passes |-> passes]

\* request bodies that pass validation; the second also carries a priority
\* and a passes flag of the caller's choosing
GoodBodies ==
    {Body("ui", "n", "d", <<"s">>, 0, FALSE),
     Body("api", "n", "d", <<"s">>, 9, TRUE)}

\* request bodies with exactly one field out of bounds
BadBodies ==
    {Body("", "n", "d", <<"s">>, 0, FALSE),
     Body(Rep(CategoryMaxLen + 1), "n", "d", <<"s">>, 0, FALSE),
     Body("ui", "", "d", <<"s">>, 0, FALSE),
     Body("ui", Rep(NameMaxLen + 1), "d", <<"s">>, 0, FALSE),
     Body("ui", "n", "", <<"s">>, 0, FALSE),
     Body("ui", "n", "d", << >>, 0, FALSE)}

Bodies == GoodBodies \cup BadBodies

BulkItems == GoodBodies \cup {Body("ui", "n", "d", << >>, 0, TRUE)}

BulkLists == UNION {[1..n -> BulkItems] : n \in 0..MaxBulk}

Ids == 1..(MaxId + 1)

ListQuery(limit, offset, passes, category) ==
    [limit |-> limit, offset |-> offset, passes |-> passes, category |-> category]

\* the bulk request and the list request issued while creates are in flight
ConcBulkLists ==
    {<<Body("ui", "n", "d", <<"s">>, 0, FALSE), Body("api", "n", "d", <<"s">>, 9, TRUE)>>}

ConcListQueries == {ListQuery(2, 1, None, None)}

\* the list requests the client issues
ListQueries ==
    {ListQuery(2, 1, None, None), ListQuery(LimitMax, 0, "true", None),
     ListQuery(1, 0, "false", "ui"), ListQuery(2, 0, None, "api"),
     ListQuery(LimitMin - 1, 0, None, None), ListQuery(LimitMax + 1, 0, None, None),
     ListQuery(1, -1, None, None)}

(* ------------------------------- state -------------------------------- *)

NoRequest == [pc |-> "idle", kind |-> "none", items |-> << >>, start_priority |-> 0]

NoExchange ==
    [op |-> "none", args |-> << >>, status |-> 0, body |-> << >>,
     pre |-> {}, preNextId |-> 0]

Exchange(op, args, r, s, nid) ==
    [op |-> op, args |-> args, status |-> r.status, body |-> r.body,
     pre |-> s, preNextId |-> nid]

\* no step of the manager or its threads yet
NoStep ==
    [op |-> "none", from |-> "Stopped", to |-> "Stopped", accepting |-> FALSE,
     expired |-> FALSE, returned |-> "none", changed |-> FALSE]

\* FeatureAPIServer(project_dir)
InitManager ==
    /\ manager = [pc |-> "idle", server |-> None, thread |-> None, elapsed |-> 0]
    /\ threads = [k \in ServerThreads |-> [state |-> "none", serves |-> None]]
    /\ should_exit = [k \in ServerThreads |-> FALSE]
    /\ trail = NoStep

Boot ==
    /\ store = {}
    /\ nextId = 1
    /\ assigned = << >>
    /\ last = NoExchange
    /\ inflight = [t \in Threads |-> NoRequest]
    /\ cache = [state |-> "absent", count |-> 0, passing_ids |-> << >>]
    /\ notifier = [pc |-> "idle", passing |-> 0, total |-> 0]
    /\ outbox = << >>
    /\ listed = [id \in 1..MaxId |-> 0]
    /\ InitManager

\* the service and its clients; the notifier is not configured
Init == Boot /\ webhookUrl = FALSE

\* PROGRESS_N8N_WEBHOOK_URL is set or not when the module is imported
InitNotifier == Boot /\ webhookUrl \in BOOLEAN

(* ------------------- requests handled one at a time ------------------- *)

\* A handler that only queries the table, run from start to end
Read(op, args, r) ==
    /\ last' = Exchange(op, args, r, store, nextId)
    /\ UNCHANGED <<store, nextId, assigned, inflight, cache, webhookUrl, lifecycle, notifier, outbox, listed>>

\* A handler that may write the table, run from start to end
Write(op, args, r) ==
    /\ r.nextId <= MaxId + 1
    /\ store' = r.store
    /\ nextId' = r.nextId
    /\ assigned' = assigned \o r.ids
    /\ last' = Exchange(op, args, r, store, nextId)
    /\ UNCHANGED <<inflight, cache, webhookUrl, lifecycle, notifier, outbox, listed>>

List(queries) ==
    \E q \in queries :
        Read("list", q, ListFeatures(store, q.limit, q.offset, q.passes, q.category))

DoList == List(ListQueries)

DoGetNext == Read("next", << >>, GetNextFeature(store))

DoGet == \E id \in Ids : Read("get", [id |-> id], GetFeature(store, id))

DoGetStats == Read("stats", << >>, GetStats(store))

DoCreate ==
    \E body \in Bodies :
        Write("create", [body |-> body], CreateFeature(store, nextId, body))

DoCreateBulk ==
    \E items \in BulkLists :
        Write("bulk", [items |-> items], CreateFeaturesBulk(store, nextId, items))

DoUpdate ==
    \E id \in Ids, passes \in BOOLEAN :
        Write("update", [id |-> id, passes |-> passes],
              UpdateFeature(store, nextId, id, passes))

DoDelete ==
    \E id \in Ids : Write("delete", [id |-> id], DeleteFeature(store, nextId, id))

Next ==
    \/ DoList
    \/ DoGetNext
    \/ DoGet
    \/ DoGetStats
    \/ DoCreate
    \/ DoCreateBulk
    \/ DoUpdate
    \/ DoDelete

Spec == Init /\ [][Next]_vars

(* ---------------- create requests handled concurrently ---------------- *)

\* A worker thread runs a create handler up to its query of the largest
\* priority (routes.py lines 196-197 and 223-224); other threads run before
\* it reaches db.add and db.commit.
BeginCreate(t) ==
    \E body \in GoodBodies :
        /\ inflight[t].pc = "idle"
        /\ inflight' = [inflight EXCEPT ![t] =
                [pc |-> "read", kind |-> "create", items |-> <<FeatureCreate(body)>>,
                 start_priority |-> NextPriority(store)]]
        /\ UNCHANGED <<store, nextId, assigned, last, cache, webhookUrl, lifecycle, notifier, outbox, listed>>

BeginCreateBulk(t) ==
    \E items \in ConcBulkLists :
        /\ inflight[t].pc = "idle"
        /\ inflight' = [inflight EXCEPT ![t] =
                [pc |-> "read", kind |-> "bulk",
                 items |-> [i \in 1..Len(items) |-> FeatureCreate(items[i])],
                 start_priority |-> NextPriority(store)]]
        /\ UNCHANGED <<store, nextId, assigned, last, cache, webhookUrl, lifecycle, notifier, outbox, listed>>

\* The thread adds its rows with the priorities it computed and commits
Commit(t) ==
    /\ inflight[t].pc = "read"
    /\ LET ins == InsertAll(store, nextId, inflight[t].start_priority, inflight[t].items)
       IN  /\ ins.nextId <= MaxId + 1
           /\ store' = ins.store
           /\ nextId' = ins.nextId
           /\ assigned' = assigned \o ins.ids
    /\ inflight' = [inflight EXCEPT ![t] = NoRequest]
    /\ last' = NoExchange
    /\ UNCHANGED <<cache, webhookUrl, lifecycle, notifier, outbox, listed>>

\* A request of another client, whose exchange this client does not see
Other(r) ==
    /\ store' = r.store
    /\ last' = NoExchange
    /\ UNCHANGED <<nextId, assigned, inflight, cache, webhookUrl, lifecycle, notifier, outbox, listed>>

OtherUpdate ==
    \E id \in 1..MaxId, passes \in BOOLEAN :
        /\ UpdateFeature(store, nextId, id, passes).status = 200
        /\ Other(UpdateFeature(store, nextId, id, passes))

OtherDelete ==
    \E id \in 1..MaxId :
        /\ DeleteFeature(store, nextId, id).status = 204
        /\ Other(DeleteFeature(store, nextId, id))

NextConc ==
    \/ \E t \in Threads : BeginCreate(t)
    \/ \E t \in Threads : BeginCreateBulk(t)
    \/ \E t \in Threads : Commit(t)
    \/ OtherUpdate
    \/ OtherDelete
    \/ List(ConcListQueries)
    \/ DoGetNext

SpecConc == Init /\ [][NextConc]_vars

(* -------------------------- progress notifier ------------------------- *)

\* set(xs) of a list
ToSet(xs) == {xs[i] : i \in 1..Len(xs)}

\* count_passing_tests: the stats of the API, or (0, 0) when the API is down
CountPassingTests(s, apiUp) ==
    IF apiUp THEN [passing |-> GetStats(s).body.passing, total |-> GetStats(s).body.total]
    ELSE [passing |-> 0, total |-> 0]

\* _api_get("/features?passes=true&limit=1000"), or no feature when it raises
FetchPassing(s, apiUp) ==
    IF apiUp THEN ListFeatures(s, NotifierFetchLimit, 0, "true", None).body.features
    ELSE << >>

\* The contents of the cache file: "present" is an object whose count is a
\* number and whose passing_ids is a list, as send_progress_webhook writes it;
\* the other states are files it did not write whole.
\*   unparseable    json.loads raises
\*   not_object     JSON that is not an object: .get raises AttributeError
\*   ids_null       "passing_ids": null, set(None) raises TypeError
\*   ids_number     "passing_ids": 7, set(7) raises TypeError
\*   count_null     "count": null and a list of ids
\*   count_string   "count": "2" and a list of ids
CaughtOnLoad == {"unparseable", "not_object", "ids_null", "ids_number"}
CountNotANumber == {"count_null", "count_string"}
CorruptStates == CaughtOnLoad \cup CountNotANumber

\* previous and previous_passing_ids after lines 62-76; ordered tells whether
\* previous is a number, which passing > previous at line 79 needs
LoadCache(c) ==
    IF c.state = "absent" \/ c.state \in CaughtOnLoad
    THEN [previous |-> 0, previous_passing_ids |-> {}, ordered |-> TRUE]
    ELSE IF c.state \in CountNotANumber
    THEN [previous |-> None, previous_passing_ids |-> ToSet(c.passing_ids),
          ordered |-> FALSE]
    ELSE [previous |-> c.count, previous_passing_ids |-> ToSet(c.passing_ids),
          ordered |-> TRUE]

\* f"[{category}] {desc}", or desc alone for an empty category
CompletedTest(feature) ==
    IF feature.category # "" THEN "[" \o feature.category \o "] " \o feature.description
    ELSE feature.description

CacheFile(count, passing_ids) ==
    [state |-> "present", count |-> count, passing_ids |-> passing_ids]

\* send_progress_webhook(passing, total, project_dir) with the cache file c,
\* the features the API lists and the outcome of the POST to the webhook:
\* the cache file it leaves, the payloads it builds (none or one) and whether
\* it raises
SendProgressWebhook(c, url, passing, total, fetched, delivered) ==
    LET loaded == LoadCache(c)
        previous == loaded.previous
        previous_passing_ids == loaded.previous_passing_ids
        current_passing_ids == [i \in 1..Len(fetched) |-> fetched[i].id]
        newly == SelectSeq(fetched, LAMBDA f : f.id \notin previous_passing_ids)
    IN  IF ~url THEN [cache |-> c, payloads |-> << >>, raised |-> FALSE]
        ELSE IF ~loaded.ordered THEN [cache |-> c, payloads |-> << >>, raised |-> TRUE]
        ELSE IF passing > previous THEN
            [cache |-> CacheFile(passing, current_passing_ids),
             raised |-> FALSE,
             payloads |-> <<[passing |-> passing,
                             total |-> total,
                             percentage |-> Percentage(passing, total),
                             previous_passing |-> previous,
                             tests_completed_this_session |-> passing - previous,
                             completed_tests |->
                                 [i \in 1..Len(newly) |-> CompletedTest(newly[i])],
                             completed_ids |-> [i \in 1..Len(newly) |-> newly[i].id],
                             delivered |-> delivered]>>]
        ELSE IF c.state = "absent" THEN
            [cache |-> CacheFile(passing, current_passing_ids), payloads |-> << >>,
             raised |-> FALSE]
        ELSE [cache |-> c, payloads |-> << >>, raised |-> FALSE]

\* print_progress_summary(project_dir) run from start to end on the cache
\* file c and the table s: send_progress_webhook is called only if total > 0
PrintProgressSummary(c, url, s, statsUp, listUp, delivered) ==
    LET counted == CountPassingTests(s, statsUp)
    IN  IF counted.total > 0
        THEN SendProgressWebhook(c, url, counted.passing, counted.total,
                                 FetchPassing(s, listUp), delivered)
        ELSE [cache |-> c, payloads |-> << >>, raised |-> FALSE]

\* print_progress_summary up to the call of send_progress_webhook
DoCountPassingTests ==
    \E apiUp \in BOOLEAN :
        LET counted == CountPassingTests(store, apiUp)
        IN  /\ notifier.pc = "idle"
            /\ notifier' = [pc |-> IF counted.total > 0 THEN "send" ELSE "idle",
                            passing |-> counted.passing, total |-> counted.total]
            /\ last' = [op |-> "count", args |-> [cache |-> cache], status |-> 0,
                        body |-> counted, pre |-> store, preNextId |-> nextId]
            /\ UNCHANGED <<store, nextId, assigned, inflight, cache, webhookUrl, lifecycle, outbox, listed>>

DoSendProgressWebhook ==
    \E apiUp \in BOOLEAN, delivered \in BOOLEAN :
        LET r == SendProgressWebhook(cache, webhookUrl, notifier.passing, notifier.total,
                                     FetchPassing(store, apiUp), delivered)
        IN  /\ notifier.pc = "send"
            /\ cache' = r.cache
            /\ outbox' = r.payloads
            /\ listed' = [id \in 1..MaxId |->
                    listed[id] + Cardinality({i \in 1..Len(r.payloads) :
                                                id \in ToSet(r.payloads[i].completed_ids)})]
            /\ \A id \in 1..MaxId : listed'[id] <= MaxListed
            /\ notifier' = [pc |-> IF r.raised THEN "raised" ELSE "idle",
                            passing |-> 0, total |-> 0]
            /\ last' = [op |-> "send",
                        args |-> [cache |-> cache, passing |-> notifier.passing,
                                  total |-> notifier.total, apiUp |-> apiUp,
                                  delivered |-> delivered],
                        status |-> 0, body |-> << >>,
                        pre |-> store, preNextId |-> nextId]
            /\ UNCHANGED <<store, nextId, assigned, inflight, webhookUrl, lifecycle>>

\* The process ends before send_progress_webhook runs, or on the exception
\* it raises, and a new one starts: the cache file and the table stay
Restart ==
    /\ notifier.pc # "idle"
    /\ notifier' = [pc |-> "idle", passing |-> 0, total |-> 0]
    /\ last' = NoExchange
    /\ UNCHANGED <<store, nextId, assigned, inflight, cache, webhookUrl, lifecycle, outbox, listed>>

\* the agent's requests to the API between two progress summaries
OtherCreate ==
    LET r == CreateFeature(store, nextId, Body("ui", "n", "d", <<"s">>, 0, FALSE))
    IN  /\ r.nextId <= MaxId + 1
        /\ nextId' = r.nextId
        /\ assigned' = assigned \o r.ids
        /\ store' = r.store
        /\ last' = NoExchange
        /\ UNCHANGED <<inflight, cache, webhookUrl, lifecycle, notifier, outbox, listed>>

NextNotifier ==
    \/ OtherCreate
    \/ OtherUpdate
    \/ OtherDelete
    \/ DoCountPassingTests
    \/ DoSendProgressWebhook
    \/ Restart

SpecNotifier == InitNotifier /\ [][NextNotifier]_vars

(* ------------------- a cache file that was damaged -------------------- *)

\* The notifier starts on a cache file that a write cut short, another
\* program or an editor left behind
InitCorrupt ==
    /\ store = {}
    /\ nextId = 1
    /\ assigned = << >>
    /\ last = NoExchange
    /\ inflight = [t \in Threads |-> NoRequest]
    /\ \E state \in CorruptStates :
            cache = [state |-> state, count |-> 0, passing_ids |-> << >>]
    /\ notifier = [pc |-> "idle", passing |-> 0, total |-> 0]
    /\ outbox = << >>
    /\ listed = [id \in 1..MaxId |-> 0]
    /\ webhookUrl = TRUE
    /\ InitManager

NextCorrupt ==
    \/ OtherCreate
    \/ OtherUpdate
    \/ OtherDelete
    \/ DoCountPassingTests
    \/ DoSendProgressWebhook
    \/ Restart

SpecCorrupt == InitCorrupt /\ [][NextCorrupt]_vars

(* --------------------------- FeatureAPIServer ------------------------- *)

\* _wait_for_ready(timeout=10.0), in tenths of a second
ReadyTimeout == 100
\* socket.create_connection(..., timeout=0.5), in tenths of a second
ProbeTimeout == 5
\* time.sleep(0.1), in tenths of a second
PollSleep == 1

\* is_running(): self.thread is not None and self.thread.is_alive()
IsRunning(m, ths) ==
    IF m.thread = None THEN FALSE ELSE ths[m.thread].state \in {"started", "serving"}

\* a server thread of this manager listens on (host, port)
Accepting(ths) == \E k \in ServerThreads : ths[k].state = "serving"

\* a poll that reports success when the timeout has elapsed
WaitForReady_TrueOnTimeout(elapsed, accepting, d) ==
    IF elapsed < ReadyTimeout /\ ~accepting
    THEN [ret |-> "loop", elapsed |-> elapsed + d]
    ELSE [ret |-> "True", elapsed |-> elapsed]

\* One pass of the loop of _wait_for_ready at time elapsed since its start:
\* "True" and "False" are its return values, "loop" is another pass after
\* the failed connection attempt and the sleep took d
WaitForReady(elapsed, accepting, d) ==
    IF elapsed < ReadyTimeout
    THEN IF accepting THEN [ret |-> "True", elapsed |-> elapsed]
         ELSE [ret |-> "loop", elapsed |-> elapsed + d]
    ELSE [ret |-> "False", elapsed |-> elapsed]

\* the state of the lifecycle as the caller of the manager can observe it
Phase(m, ths) ==
    IF m.pc = "wait" THEN "Starting"
    ELSE IF m.pc = "join" THEN "Stopping"
    ELSE IF IsRunning(m, ths) THEN "Running"
    ELSE "Stopped"

\* what a step did: the operation, the phase before and after, whether the
\* port accepted connections and the poll had timed out before it, the call
\* that returned in it (if any) and whether it changed the manager, a thread
\* or a should_exit flag
Step(op, returned, m, ths, sx) ==
    [op |-> op, from |-> Phase(manager, threads), to |-> Phase(m, ths),
     accepting |-> Accepting(threads),
     expired |-> manager.pc = "wait" /\ manager.elapsed >= ReadyTimeout,
     returned |-> returned,
     changed |-> <<m, ths, sx>> # <<manager, threads, should_exit>>]

\* a step of the manager or of a thread to the given manager, threads and flags
Move(op, returned, m, ths, sx) ==
    /\ manager' = m
    /\ threads' = ths
    /\ should_exit' = sx
    /\ trail' = Step(op, returned, m, ths, sx)
    /\ UNCHANGED <<store, nextId, assigned, last, inflight, cache, webhookUrl, notifier, outbox, listed>>

\* start() up to the first pass of _wait_for_ready: a new uvicorn.Server and
\* a new thread k, both stored in self, whatever self held before
Start ==
    \E k \in ServerThreads :
        /\ manager.pc = "idle"
        /\ threads[k].state \in {"none", "dead"}
        /\ Move("start", "none",
                [pc |-> "wait", server |-> k, thread |-> k, elapsed |-> 0],
                [threads EXCEPT ![k] = [state |-> "started", serves |-> None]],
                [should_exit EXCEPT ![k] = FALSE])

\* One pass of _wait_for_ready, and the end of start() when it returns: the
\* connection attempt is refused at once or times out
DoWaitForReady ==
    \E d \in {PollSleep, ProbeTimeout + PollSleep} :
        LET w == WaitForReady(manager.elapsed, Accepting(threads), d)
        IN  /\ manager.pc = "wait"
            /\ Move("wait",
                    IF w.ret = "True" THEN "started"
                    ELSE IF w.ret = "False" THEN "raised" ELSE "none",
                    IF w.ret = "loop" THEN [manager EXCEPT !.elapsed = w.elapsed]
                    ELSE [manager EXCEPT !.pc = "idle", !.elapsed = 0],
                    threads, should_exit)

\* Thread k reaches self.server.run() with the server self holds then: it
\* listens if the port is free, and ends on the bind error otherwise
RunServer(k) ==
    /\ threads[k].state = "started"
    /\ Move("thread", "none", manager,
            [threads EXCEPT ![k] =
                IF Accepting(threads) THEN [state |-> "dead", serves |-> None]
                ELSE [state |-> "serving", serves |-> manager.server]],
            should_exit)

\* the server of thread k fails during its startup and the thread ends
StartupFails(k) ==
    /\ threads[k].state = "started"
    /\ Move("thread", "none", manager,
            [threads EXCEPT ![k] = [state |-> "dead", serves |-> None]], should_exit)

\* the server thread k runs sees its should_exit flag and returns from run()
ServerExits(k) ==
    /\ threads[k].state = "serving"
    /\ should_exit[threads[k].serves]
    /\ Move("thread", "none", manager,
            [threads EXCEPT ![k] = [state |-> "dead", serves |-> None]], should_exit)

\* stop() up to thread.join, or to its end when there is nothing to join
Stop ==
    /\ manager.pc = "idle"
    /\ IF manager.server = None
       THEN Move("stop", "stopped", manager, threads, should_exit)
       ELSE IF IsRunning(manager, threads)
       THEN Move("stop", "none", [manager EXCEPT !.pc = "join"], threads,
                 [should_exit EXCEPT ![manager.server] = TRUE])
       ELSE Move("stop", "stopped", manager, threads,
                 [should_exit EXCEPT ![manager.server] = TRUE])

\* self.thread.join(timeout=5.0) returns, the thread ended or not, and stop()
\* with it
DoJoin ==
    /\ manager.pc = "join"
    /\ Move("join", "stopped", [manager EXCEPT !.pc = "idle"], threads, should_exit)

NextServer ==
    \/ Start
    \/ DoWaitForReady
    \/ \E k \in ServerThreads : RunServer(k)
    \/ \E k \in ServerThreads : StartupFails(k)
    \/ \E k \in ServerThreads : ServerExits(k)
    \/ Stop
    \/ DoJoin

\* The calling thread keeps running: a poll or a join in progress takes its
\* next step. Nothing is assumed of the server threads.
SpecServer ==
    /\ Init
    /\ [][NextServer]_vars
    /\ WF_vars(DoWaitForReady)
    /\ WF_vars(DoJoin)

(* ====================================================================== *)
(*                                claims                                  *)
(* ====================================================================== *)

IdsOf(s) == {f.id : f \in s}

\* the largest priority in a table, 0 when it is empty
MaxPriorityOr0(s) ==
    CHOOSE m \in {0} \cup {f.priority : f \in s} : \A f \in s : f.priority <= m

\* (priority, id) of f is not after that of g
NotAfter(f, g) ==
    \/ f.priority < g.priority
    \/ (f.priority = g.priority /\ f.id <= g.id)

\* a create body the contract rejects
Rejected(body) ==
    \/ body.category = ""
    \/ body.name = ""
    \/ body.description = ""
    \/ Len(body.category) > 100
    \/ Len(body.name) > 255
    \/ body.steps = << >>

\* C1: each feature id is listed as newly completed in at most one
\* notification built during the lifetime of the cache file.
C1_ListedAtMostOnce ==
    \A id \in 1..MaxId : listed[id] <= 1

\* C2: when create or create_bulk requests are handled concurrently, no two
\* features of the table carry the same priority.
C2_NoDuplicatePriority ==
    \A f \in store : \A g \in store : f.id # g.id => f.priority # g.priority

\* C3: in every reachable table, get_next_pending answers the feature with
\* the least (priority, id) among those with passes = false, and answers
\* NotFound exactly when no feature has passes = false.
C3_NextPendingIsMinimal ==
    LET r == GetNextFeature(store)
        pending == {f \in store : f.passes = FALSE}
    IN  /\ (r.status = 404) <=> (pending = {})
        /\ pending # {} =>
              /\ r.status = 200
              /\ r.body \in pending
              /\ \A g \in pending : NotAfter(r.body, g)

C3_Witness ==
    /\ last.op = "next"
    /\ last.status = 200
    /\ \E g \in store : g.passes = FALSE /\ g.id # last.body.id
                        /\ g.priority = last.body.priority
    /\ \E g \in store : g.passes = TRUE /\ g.priority < last.body.priority

\* C4: the ids the table hands out are strictly increasing in creation
\* order, so none is handed out twice, also after deletes.
C4_IdsStrictlyIncreasing ==
    /\ \A i \in 1..Len(assigned) : \A j \in 1..Len(assigned) :
          i < j => assigned[i] < assigned[j]
    /\ IdsOf(store) \subseteq {assigned[i] : i \in 1..Len(assigned)}

C4_Witness ==
    /\ last.op \in {"create", "bulk"}
    /\ last.status = 201
    /\ last.preNextId > 1
    /\ (last.preNextId - 1) \notin IdsOf(last.pre)
    /\ last.preNextId \in IdsOf(store)

\* C5: a bulk create of N valid items answers created = N and inserts
\* exactly N features; the i-th item of the list gets priority
\* start + i - 1, where start = max(existing priority, 0) + 1.
C5_BulkPrioritiesSequential ==
    last.op = "bulk" /\ (\A i \in 1..Len(last.args.items) : ~Rejected(last.args.items[i]))
                     /\ Len(last.args.items) >= 1 =>
        LET items == last.args.items
            N == Len(items)
            start == MaxPriorityOr0(last.pre) + 1
        IN  /\ last.status = 201
            /\ last.body.created = N
            /\ last.pre \subseteq store
            /\ Cardinality(store \ last.pre) = N
            /\ \A i \in 1..N : \E f \in store \ last.pre :
                  /\ f.id = last.preNextId + i - 1
                  /\ f.priority = start + i - 1
                  /\ f.category = items[i].category
                  /\ f.name = items[i].name
                  /\ f.description = items[i].description
                  /\ f.steps = items[i].steps

C5_Witness ==
    /\ last.op = "bulk"
    /\ last.status = 201
    /\ Len(last.args.items) = 2
    /\ last.args.items[1].category # last.args.items[2].category
    /\ last.pre # {}
    /\ \E f \in last.pre : f.passes = TRUE

\* C6: a create or create_bulk request that fails validation is answered
\* with ValidationError (422) and leaves the table as it was; a bulk request
\* with one invalid item inserts none of its items.
C6_InvalidRejectedUnchanged ==
    /\ last.op = "create" /\ Rejected(last.args.body) =>
          last.status = 422 /\ store = last.pre /\ nextId = last.preNextId
    /\ last.op = "bulk" /\ (last.args.items = << >>
                            \/ \E i \in 1..Len(last.args.items) :
                                  Rejected(last.args.items[i])) =>
          last.status = 422 /\ store = last.pre /\ nextId = last.preNextId

C6_Witness ==
    /\ last.op = "bulk"
    /\ last.status = 422
    /\ Len(last.args.items) = 2
    /\ ~Rejected(last.args.items[1])
    /\ Rejected(last.args.items[2])
    /\ store # {}

\* C7: every feature produced by create or create_bulk has passes = false
\* and priority max(existing priorities, default 0) + 1 (plus its offset in
\* the batch), whatever the request body carries.
C7_CreatedPendingServicePriority ==
    /\ last.op = "create" /\ last.status = 201 =>
          /\ store \ last.pre = {last.body}
          /\ last.body.passes = FALSE
          /\ last.body.priority = MaxPriorityOr0(last.pre) + 1
    /\ last.op = "bulk" /\ last.status = 201 =>
          \A f \in store \ last.pre :
              /\ f.passes = FALSE
              /\ f.priority = MaxPriorityOr0(last.pre) + 1 + (f.id - last.preNextId)

C7_Witness ==
    /\ last.op = "create"
    /\ last.status = 201
    /\ last.args.body.passes = TRUE
    /\ last.args.body.priority # MaxPriorityOr0(last.pre) + 1
    /\ last.pre # {}

\* C8: update_passes and delete of an id that is not in the table answer
\* NotFound (404) and leave the table as it was; no operation changes the
\* table when it answers an error.
C8_ErrorsLeaveStore ==
    /\ last.op \in {"update", "delete"} /\ last.args.id \notin IdsOf(last.pre) =>
          last.status = 404
    /\ last.status \in {404, 422} =>
          store = last.pre /\ nextId = last.preNextId

C8_Witness ==
    /\ last.op = "update"
    /\ last.status = 404
    /\ last.args.passes = TRUE
    /\ \E f \in store : f.passes = FALSE

\* C9: update_passes(id, v) changes the passes field of the feature with
\* that id and nothing else; no operation changes another field of a feature
\* that stays in the table.
C9_UpdateChangesOnlyPasses ==
    /\ last.op = "update" /\ last.status = 200 =>
          \E f \in last.pre :
              /\ f.id = last.args.id
              /\ last.body = [f EXCEPT !.passes = last.args.passes]
              /\ store = (last.pre \ {f}) \cup {last.body}
    /\ last.op # "none" =>
          \A f \in last.pre : \A g \in store :
              f.id = g.id => [g EXCEPT !.passes = f.passes] = f

C9_Witness ==
    /\ last.op = "update"
    /\ last.status = 200
    /\ Cardinality(last.pre) >= 2
    /\ store # last.pre

\* the features of s a list request selects
Matching(s, passes, category) ==
    {f \in s : /\ (passes = "true" => f.passes = TRUE)
               /\ (passes = "false" => f.passes = FALSE)
               /\ (category # None => f.category = category)}

\* r answers the window offset+1 .. offset+limit of the matching features in
\* (priority, id) order, and the number of matching features
IsWindow(r, s, q) ==
    LET matching == Matching(s, q.passes, q.category)
        rank(f) == Cardinality({g \in matching : g # f /\ NotAfter(g, f)})
    IN  /\ r.status = 200
        /\ r.body.total = Cardinality(matching)
        /\ Len(r.body.features) = Max(0, Min(q.limit, Cardinality(matching) - q.offset))
        /\ \A i \in 1..Len(r.body.features) :
              /\ r.body.features[i] \in matching
              /\ rank(r.body.features[i]) = q.offset + i - 1

\* valid list requests: windows inside, across and beyond the matching
\* features, with each filter alone, both and none
CheckedListQueries ==
    {ListQuery(2, 1, None, None), ListQuery(LimitMin, 0, "false", None),
     ListQuery(LimitMax, 0, "true", None), ListQuery(LimitMin, 2, None, None),
     ListQuery(2, 0, None, "api"), ListQuery(LimitMax, 1, "false", "ui"),
     ListQuery(2, 2, "true", "ui"), ListQuery(LimitMax, 0, None, None)}

\* C10: list(limit, offset, passes?, category?) answers the elements at
\* positions offset+1 .. offset+limit of the matching features sorted by
\* (priority, id), and total is the number of matching features.
C10_ListWindowAndTotal ==
    /\ \A q \in CheckedListQueries :
          IsWindow(ListFeatures(store, q.limit, q.offset, q.passes, q.category), store, q)
    /\ last.op = "list" /\ last.args \in CheckedListQueries =>
          IsWindow(last, last.pre, last.args)

C10_Witness ==
    /\ last.op = "list"
    /\ last.args.limit = 2
    /\ last.args.offset = 1
    /\ last.body.total = 3
    /\ Len(last.body.features) = 2
    /\ last.body.features[1].priority = last.body.features[2].priority

\* |x|
Abs(x) == IF x < 0 THEN -x ELSE x

\* tenths is a number of tenths nearest to 100 * passing / total
NearestTenth(tenths, passing, total) ==
    2 * Abs(tenths * total - 1000 * passing) <= total

\* C11: get_stats answers the number of passing features, the number of
\* features, and the percentage 100 * passing / total rounded to one decimal,
\* which is 0.0 for an empty table (no division by zero); 3 of 4 gives 75.0.
C11_StatsPercentage ==
    /\ LET r == GetStats(store)
           passing == Cardinality({f \in store : f.passes})
           total == Cardinality(store)
       IN  /\ r.status = 200
           /\ r.body.passing = passing
           /\ r.body.total = total
           /\ total = 0 => r.body.percentage = 0
           /\ total > 0 => NearestTenth(r.body.percentage, passing, total)
    /\ last.op = "stats" => last.body = GetStats(last.pre).body /\ store = last.pre
    /\ \A total \in 0..(MaxId + 1) : \A passing \in 0..total :
            IF total = 0 THEN Percentage(passing, total) = 0
            ELSE NearestTenth(Percentage(passing, total), passing, total)
    /\ Percentage(3, 4) = 750

\* get_stats answered 66.7 for two passing features of three
C11_Witness ==
    /\ last.op = "stats"
    /\ last.body.total = 3
    /\ last.body.passing = 2
    /\ last.body.percentage = 667

\* the ids of the passing features of a table
PassingIds(s) == {f.id : f \in {g \in s : g.passes}}

\* send_progress_webhook has just returned from its passing > previous branch
SentOnIncrease ==
    /\ last.op = "send"
    /\ webhookUrl
    /\ LoadCache(last.args.cache).ordered
    /\ last.args.passing > LoadCache(last.args.cache).previous

C15_NotifyOncePerIncrease ==
    SentOnIncrease =>
        /\ Len(outbox) = 1
        /\ ToSet(outbox[1].completed_ids)
               = PassingIds(last.pre) \ ToSet(last.args.cache.passing_ids)
        /\ cache.state = "present"
        /\ cache.count = last.args.passing
        /\ ToSet(cache.passing_ids) = PassingIds(last.pre)
        /\ \A statsUp \in BOOLEAN, listUp \in BOOLEAN, delivered \in BOOLEAN :
               LET r == PrintProgressSummary(cache, webhookUrl, store,
                                             statsUp, listUp, delivered)
               IN  r.payloads = << >> /\ r.cache = cache

\* C16: in the passing > previous branch the cache is left as {count: passing,
\* passing_ids: the ids of the currently passing features}, whether the POST
\* to the sink succeeded or failed, and nothing is raised to the caller.
C16_CachePersistedWhateverDelivery ==
    SentOnIncrease =>
        /\ notifier.pc # "raised"
        /\ cache = [state |-> "present", count |-> last.args.passing,
                    passing_ids |-> cache.passing_ids]
        /\ Len(cache.passing_ids) = Cardinality(PassingIds(last.pre))
        /\ ToSet(cache.passing_ids) = PassingIds(last.pre)

\* C17: a progress summary that finds passing not above the cached count
\* sends no notification; if the cache file is absent it writes the baseline
\* {count: passing, passing_ids: the currently passing ids}, and if the cache
\* file is present it leaves it unchanged.
C17_BaselineOrUnchanged ==
    LET passing == IF last.op = "count" THEN last.body.passing ELSE last.args.passing
        before == last.args.cache
    IN  ( /\ webhookUrl
          /\ notifier.pc = "idle"
          /\ last.op \in {"count", "send"}
          /\ LoadCache(before).ordered
          /\ passing <= LoadCache(before).previous )
        => /\ last.op = "send" => outbox = << >>
           /\ IF before.state = "absent"
              THEN /\ cache.state = "present"
                   /\ cache.count = passing
                   /\ ToSet(cache.passing_ids) = PassingIds(last.pre)
              ELSE cache = before

\* what send_progress_webhook does on the cache file {count: 0, passing_ids: []}
\* with the arguments and outcomes of the call that has just returned
OnEmptyCache ==
    SendProgressWebhook(CacheFile(0, << >>), webhookUrl, last.args.passing,
                        last.args.total, FetchPassing(last.pre, last.args.apiUp),
                        last.args.delivered)

\* C18: a cache file that is unparseable, not a JSON object, or an object
\* whose count or passing_ids is null or of the wrong type is treated as
\* {count: 0, passing_ids: []}: the same notification, the same cache written
\* (none if that cache would be left alone), and no exception.
C18_CorruptCacheAsEmpty ==
    (last.op = "send" /\ last.args.cache.state \in CorruptStates) =>
        /\ notifier.pc # "raised"
        /\ outbox = OnEmptyCache.payloads
        /\ cache = IF OnEmptyCache.cache = CacheFile(0, << >>) /\ OnEmptyCache.payloads = << >>
                   THEN last.args.cache
                   ELSE OnEmptyCache.cache

\* C19: the cache file the notifier wrote is self-consistent: count is the
\* number of ids in passing_ids (as it must be if passing_ids is the set of
\* ids that were passing when count was measured).
C19_CacheCountMatchesIds ==
    cache.state = "present" =>
        cache.count = Cardinality(ToSet(cache.passing_ids))

\* C13: start() does not block for ever. Its poll is left after a bounded
\* time; start() returns normally only from a pass whose connection attempt
\* found the port accepting, and raises only once the timeout has elapsed;
\* every further pass of the poll finds more time elapsed, and under a caller
\* that keeps running the poll (the only loop) ends.
C13_StartBounded ==
    /\ [](/\ manager.elapsed < ReadyTimeout + ProbeTimeout + PollSleep
          /\ trail.returned = "started" => trail.op = "wait" /\ trail.accepting
          /\ trail.returned = "raised" => trail.op = "wait" /\ trail.expired)
    /\ [][(manager.pc = "wait" /\ manager'.pc = "wait" /\ trail'.op = "wait")
            => manager'.elapsed > manager.elapsed]_vars
    /\ (manager.pc = "wait") ~> (manager.pc = "idle")

\* start() has raised after the poll timed out with nothing listening
C13_Witness ==
    /\ trail.returned = "raised"
    /\ trail.expired
    /\ ~trail.accepting

\* the moves of the state machine Stopped -> Starting -> Running -> Stopping -> Stopped
LifecycleMoves ==
    {<<"Stopped", "Starting">>, <<"Starting", "Running">>,
     <<"Running", "Stopping">>, <<"Stopping", "Stopped">>}

\* C14: whatever start() and stop() calls are made, every step leaves the
\* lifecycle where it is or moves it along Stopped -> Starting -> Running ->
\* Stopping -> Stopped, and stop() called when not running changes nothing.
C14_LifecycleOrder ==
    /\ trail.from = trail.to \/ <<trail.from, trail.to>> \in LifecycleMoves
    /\ (trail.op = "stop" /\ trail.from = "Stopped") =>
            (trail.to = "Stopped" /\ ~trail.changed)

\* the threads started by the manager that are alive
AliveThreads == {k \in ServerThreads : threads[k].state \in {"started", "serving"}}

\* C20: between calls, at most one thread started by the manager is alive,
\* is_running() is true exactly when one is, and is_running() is false once
\* stop() has returned.
C20_OneTrackedThread ==
    manager.pc = "idle" =>
        /\ Cardinality(AliveThreads) <= 1
        /\ IsRunning(manager, threads) <=> AliveThreads # {}
        /\ trail.returned = "stopped" => ~IsRunning(manager, threads)

====
